---- MODULE Spec2Model ----
(***************************************************************************)
(* Model of background.js, the service worker of claude-artifact-exporter. *)
(* Strings are sequences of one-character strings, so that the regular     *)
(* expressions, replace(), split(), trim() and the template strings of the *)
(* source are computed character by character.                             *)
(***************************************************************************)
EXTENDS Integers, Sequences, FiniteSets, TLC

----------------------------------------------------------------------------
(* Bounds of the model                                                     *)

MaxConvs == 3
MaxAllocs == 3
MaxPieces == 3

JobIds == {1, 2}

----------------------------------------------------------------------------
(* String helpers (JavaScript String built-ins)                            *)

Range(s) == {s[i] : i \in 1..Len(s)}

\* F(v), with v evaluated once, as JavaScript evaluates an argument or the
\* initializer of a const
Apply(F(_), v) == CHOOSE r \in {F(x) : x \in {v}} : TRUE

\* s.substring(from - 1, to) with 1-based inclusive bounds
Slice(s, from, to) == SubSeq(s, from, to)

\* the literal lit occurs in s starting at position i
MatchAt(s, lit, i) ==
    /\ i >= 1
    /\ i + Len(lit) - 1 <= Len(s)
    /\ \A k \in 1..Len(lit) : s[i + k - 1] = lit[k]

\* position of the first occurrence of lit in s at or after from; 0 if none
IndexOfFrom(s, lit, from) ==
    Apply(LAMBDA hits :
            IF hits = {} THEN 0 ELSE CHOOSE i \in hits : \A h \in hits : i <= h,
          {i \in from..Len(s) : MatchAt(s, lit, i)})

UpperCase ==
    {"A", "B", "C", "D", "E", "F", "G", "H", "I", "J", "K", "L", "M",
     "N", "O", "P", "Q", "R", "S", "T", "U", "V", "W", "X", "Y", "Z"}

LowerCase ==
    {"a", "b", "c", "d", "e", "f", "g", "h", "i", "j", "k", "l", "m",
     "n", "o", "p", "q", "r", "s", "t", "u", "v", "w", "x", "y", "z"}

Digits == {"0", "1", "2", "3", "4", "5", "6", "7", "8", "9"}

LowerOf ==
    ("A" :> "a") @@ ("B" :> "b") @@ ("C" :> "c") @@ ("D" :> "d") @@
    ("E" :> "e") @@ ("F" :> "f") @@ ("G" :> "g") @@ ("H" :> "h") @@
    ("I" :> "i") @@ ("J" :> "j") @@ ("K" :> "k") @@ ("L" :> "l") @@
    ("M" :> "m") @@ ("N" :> "n") @@ ("O" :> "o") @@ ("P" :> "p") @@
    ("Q" :> "q") @@ ("R" :> "r") @@ ("S" :> "s") @@ ("T" :> "t") @@
    ("U" :> "u") @@ ("V" :> "v") @@ ("W" :> "w") @@ ("X" :> "x") @@
    ("Y" :> "y") @@ ("Z" :> "z")

\* String.prototype.toLowerCase
ToLowerCase(s) ==
    [k \in 1..Len(s) |-> IF s[k] \in UpperCase THEN LowerOf[s[k]] ELSE s[k]]

\* the regular expression class \s, as far as the texts of the model go
WhiteSpace == {" ", "\n", "\t"}

\* String.prototype.trim
Trim(s) ==
    Apply(LAMBDA keep :
            IF keep = {} THEN <<>>
            ELSE Slice(s, CHOOSE i \in keep : \A k \in keep : i <= k,
                          CHOOSE i \in keep : \A k \in keep : i >= k),
          {i \in 1..Len(s) : s[i] \notin WhiteSpace})

DigitOf ==
    (0 :> "0") @@ (1 :> "1") @@ (2 :> "2") @@ (3 :> "3") @@ (4 :> "4") @@
    (5 :> "5") @@ (6 :> "6") @@ (7 :> "7") @@ (8 :> "8") @@ (9 :> "9")

\* the decimal digits a template string writes for the number n
RECURSIVE NumToStr(_)
NumToStr(n) ==
    IF n < 10 THEN <<DigitOf[n]>>
    ELSE NumToStr(n \div 10) \o <<DigitOf[n % 10]>>

\* String.prototype.split('/')
RECURSIVE SplitSlash(_)
SplitSlash(s) ==
    Apply(LAMBDA p :
            IF p = 0 THEN <<s>>
            ELSE <<Slice(s, 1, p - 1)>> \o SplitSlash(Slice(s, p + 1, Len(s))),
          IndexOfFrom(s, <<"/">>, 1))

\* Array.prototype.join('/')
RECURSIVE JoinSlash(_)
JoinSlash(parts) ==
    IF Len(parts) = 0 THEN <<>>
    ELSE IF Len(parts) = 1 THEN parts[1]
    ELSE parts[1] \o <<"/">> \o JoinSlash(Tail(parts))

\* ReplaceRuns for the expression without "+": every character outside
\* allowed becomes an underscore of its own
RECURSIVE ReplaceRuns_EachChar(_, _)
ReplaceRuns_EachChar(s, allowed) ==
    IF Len(s) = 0 THEN <<>>
    ELSE IF s[1] \in allowed
    THEN <<s[1]>> \o ReplaceRuns_EachChar(Tail(s), allowed)
    ELSE <<"_">> \o ReplaceRuns_EachChar(Tail(s), allowed)

\* s.replace(/[^...]+/g, '_') where allowed is the complement class: every
\* maximal run of characters outside allowed becomes one underscore
RECURSIVE ReplaceRuns(_, _)
ReplaceRuns(s, allowed) ==
    IF Len(s) = 0 THEN <<>>
    ELSE IF s[1] \in allowed THEN <<s[1]>> \o ReplaceRuns(Tail(s), allowed)
    ELSE IF Len(s) > 1 /\ s[2] \notin allowed THEN ReplaceRuns(Tail(s), allowed)
    ELSE <<"_">> \o ReplaceRuns(Tail(s), allowed)

\* the regular expression class \w
WordChars == UpperCase \cup LowerCase \cup Digits \cup {"_"}

\* the characters /[^\w\-._/]+/g leaves alone (title of an artifact)
TitleChars == WordChars \cup {"-", ".", "/"}

\* the characters /[^\w\-._]+/g leaves alone (name of a conversation)
FolderChars == WordChars \cup {"-", "."}

----------------------------------------------------------------------------
(* extractArtifacts                                                        *)

OpenLit == <<"<", "a", "n", "t", "A", "r", "t", "i", "f", "a", "c", "t">>
CloseLit == <<"<", "/", "a", "n", "t", "A", "r", "t", "i", "f", "a", "c", "t", ">">>
TitleLit == <<"t", "i", "t", "l", "e", "=", "\"">>
LanguageLit == <<"l", "a", "n", "g", "u", "a", "g", "e", "=", "\"">>
Untitled == <<"U", "n", "t", "i", "t", "l", "e", "d">>
DefaultLanguage == <<"t", "x", "t">>

NoMatch == [found |-> FALSE, start |-> 0, bodyFrom |-> 0, bodyTo |-> 0, end |-> 0]

\* MatchFrom with a greedy body ([\s\S]* in the place of [\s\S]*?): the body
\* runs to the last closing literal of the text
MatchFrom_GreedyBody(text, s) ==
    IF ~MatchAt(text, OpenLit, s) THEN NoMatch
    ELSE Apply(LAMBDA gt :
           IF gt = 0 THEN NoMatch
           ELSE Apply(LAMBDA closes :
                  IF closes = {} THEN NoMatch
                  ELSE Apply(LAMBDA cl :
                         [found |-> TRUE, start |-> s, bodyFrom |-> gt + 1,
                          bodyTo |-> cl - 1, end |-> cl + Len(CloseLit) - 1],
                         CHOOSE c \in closes : \A d \in closes : c >= d),
                  {c \in (gt + 1)..Len(text) : MatchAt(text, CloseLit, c)}),
           IndexOfFrom(text, <<">">>, s + Len(OpenLit)))

\* the match of /<antArtifact[^>]*>([\s\S]*?)<\/antArtifact>/ that begins at
\* position s: [^>]* stops at the first ">" after the literal, the lazy
\* body stops at the first closing literal after that ">"
MatchFrom(text, s) ==
    IF ~MatchAt(text, OpenLit, s) THEN NoMatch
    ELSE Apply(LAMBDA gt :
           IF gt = 0 THEN NoMatch
           ELSE Apply(LAMBDA cl :
                  IF cl = 0 THEN NoMatch
                  ELSE [found |-> TRUE, start |-> s, bodyFrom |-> gt + 1,
                        bodyTo |-> cl - 1, end |-> cl + Len(CloseLit) - 1],
                  IndexOfFrom(text, CloseLit, gt + 1)),
           IndexOfFrom(text, <<">">>, s + Len(OpenLit)))

\* artifactRegex.exec(text) with lastIndex = from - 1: the leftmost match
ArtifactRegexExec(text, from) ==
    Apply(LAMBDA starts :
            IF starts = {} THEN NoMatch
            ELSE MatchFrom(text, CHOOSE s \in starts : \A o \in starts : s <= o),
          {s \in from..Len(text) : MatchFrom(text, s).found})

\* fullTag.match(/attr="([^"]*)/): [matched, group 1]
AttrMatch(fullTag, lit) ==
    Apply(LAMBDA p :
            IF p = 0 THEN [matched |-> FALSE, value |-> <<>>]
            ELSE Apply(LAMBDA q :
                         [matched |-> TRUE,
                          value |-> Slice(fullTag, p + Len(lit),
                                          IF q = 0 THEN Len(fullTag) ELSE q - 1)],
                       IndexOfFrom(fullTag, <<"\"">>, p + Len(lit))),
          IndexOfFrom(fullTag, lit, 1))

\* lines 47-57: the artifact of the match with full text fullTag and
\* group 1 content
ArtifactOf(fullTag, content) ==
    LET titleMatch == AttrMatch(fullTag, TitleLit)
        languageMatch == AttrMatch(fullTag, LanguageLit)
    IN  [title |-> IF titleMatch.matched THEN titleMatch.value ELSE Untitled,
         language |-> IF languageMatch.matched THEN languageMatch.value
                      ELSE DefaultLanguage,
         content |-> Trim(content)]

\* lines 46-58: the loop over the matches, from position from on
RECURSIVE ExtractFrom(_, _)
ExtractFrom(text, from) ==
    Apply(LAMBDA m :
            IF ~m.found THEN <<>>
            ELSE << Apply(LAMBDA fullTag :
                            Apply(LAMBDA content : ArtifactOf(fullTag, content),
                                  Slice(text, m.bodyFrom, m.bodyTo)),
                          Slice(text, m.start, m.end)) >>
                 \o ExtractFrom(text, m.end + 1),
          ArtifactRegexExec(text, from))

extractArtifacts(text) == Apply(LAMBDA t : ExtractFrom(t, 1), text)

----------------------------------------------------------------------------
(* getFileExtension                                                        *)

languageToExt ==
    {[lang |-> <<"j", "a", "v", "a", "s", "c", "r", "i", "p", "t">>, ext |-> <<".", "j", "s">>],
     [lang |-> <<"h", "t", "m", "l">>, ext |-> <<".", "h", "t", "m", "l">>],
     [lang |-> <<"c", "s", "s">>, ext |-> <<".", "c", "s", "s">>],
     [lang |-> <<"p", "y", "t", "h", "o", "n">>, ext |-> <<".", "p", "y">>],
     [lang |-> <<"j", "a", "v", "a">>, ext |-> <<".", "j", "a", "v", "a">>],
     [lang |-> <<"c">>, ext |-> <<".", "c">>],
     [lang |-> <<"c", "p", "p">>, ext |-> <<".", "c", "p", "p">>],
     [lang |-> <<"r", "u", "b", "y">>, ext |-> <<".", "r", "b">>],
     [lang |-> <<"p", "h", "p">>, ext |-> <<".", "p", "h", "p">>],
     [lang |-> <<"s", "w", "i", "f", "t">>, ext |-> <<".", "s", "w", "i", "f", "t">>],
     [lang |-> <<"g", "o">>, ext |-> <<".", "g", "o">>],
     [lang |-> <<"r", "u", "s", "t">>, ext |-> <<".", "r", "s">>],
     [lang |-> <<"t", "y", "p", "e", "s", "c", "r", "i", "p", "t">>, ext |-> <<".", "t", "s">>],
     [lang |-> <<"s", "h", "e", "l", "l">>, ext |-> <<".", "s", "h">>],
     [lang |-> <<"s", "q", "l">>, ext |-> <<".", "s", "q", "l">>],
     [lang |-> <<"k", "o", "t", "l", "i", "n">>, ext |-> <<".", "k", "t">>],
     [lang |-> <<"s", "c", "a", "l", "a">>, ext |-> <<".", "s", "c", "a", "l", "a">>],
     [lang |-> <<"r">>, ext |-> <<".", "r">>],
     [lang |-> <<"m", "a", "t", "l", "a", "b">>, ext |-> <<".", "m">>],
     [lang |-> <<"j", "s", "o", "n">>, ext |-> <<".", "j", "s", "o", "n">>],
     [lang |-> <<"x", "m", "l">>, ext |-> <<".", "x", "m", "l">>],
     [lang |-> <<"y", "a", "m", "l">>, ext |-> <<".", "y", "a", "m", "l">>],
     [lang |-> <<"m", "a", "r", "k", "d", "o", "w", "n">>, ext |-> <<".", "m", "d">>],
     [lang |-> <<"t", "e", "x", "t">>, ext |-> <<".", "t", "x", "t">>] }

DefaultExt == <<".", "t", "x", "t">>

getFileExtension(language) ==
    LET rows == {r \in languageToExt : r.lang = ToLowerCase(language)}
    IN  IF rows = {} THEN DefaultExt ELSE (CHOOSE r \in rows : TRUE).ext

----------------------------------------------------------------------------
(* getUniqueFileName                                                       *)

\* lines 96-107: the base path of an artifact inside its conversation folder
BaseName(title, conversationFolder) ==
    Apply(LAMBDA sanitized :
            Apply(LAMBDA parts :
                    IF Len(parts) > 1
                    THEN LET fileName == parts[Len(parts)]
                             subDir == JoinSlash(SubSeq(parts, 1, Len(parts) - 1))
                         IN  conversationFolder \o <<"/">> \o subDir
                                 \o <<"/">> \o fileName
                    ELSE conversationFolder \o <<"/">> \o sanitized,
                  SplitSlash(sanitized)),
          ReplaceRuns(title, TitleChars))

\* ProbeName with an if in the place of the while of line 112
ProbeName_Once(fileName, baseName, extension, counter, usedNames) ==
    IF fileName \in usedNames
    THEN baseName \o <<"_">> \o NumToStr(counter) \o extension
    ELSE fileName

\* lines 112-115: the loop over counter, entered with the candidate fileName
RECURSIVE ProbeName(_, _, _, _, _)
ProbeName(fileName, baseName, extension, counter, usedNames) ==
    IF fileName \in usedNames
    THEN ProbeName(baseName \o <<"_">> \o NumToStr(counter) \o extension,
                   baseName, extension, counter + 1, usedNames)
    ELSE fileName

\* getUniqueFileName with counter = 0 in the place of line 110
getUniqueFileName_CounterFromZero(title, language, usedNames, conversationFolder) ==
    Apply(LAMBDA fileName :
            [fileName |-> fileName, usedNames |-> usedNames \cup {fileName}],
          Apply(LAMBDA baseName :
                  Apply(LAMBDA extension :
                          ProbeName(baseName \o extension, baseName, extension,
                                    0, usedNames),
                        getFileExtension(language)),
                BaseName(title, conversationFolder)))

\* getUniqueFileName: the path it returns and the registry it leaves
\* (line 117 adds the path to usedNames)
getUniqueFileName(title, language, usedNames, conversationFolder) ==
    Apply(LAMBDA fileName :
            [fileName |-> fileName, usedNames |-> usedNames \cup {fileName}],
          Apply(LAMBDA baseName :
                  Apply(LAMBDA extension :
                          ProbeName(baseName \o extension, baseName, extension,
                                    1, usedNames),
                        getFileExtension(language)),
                BaseName(title, conversationFolder)))

----------------------------------------------------------------------------
(* processConversation                                                     *)

\* zip.file(fileName, content): adds the entry, replacing one of that name
ZipFile(zip, fileName, content) ==
    [p \in (DOMAIN zip) \cup {fileName} |->
        IF p = fileName THEN content ELSE zip[p]]

\* lines 138-151: the text of a message whose content is truthy; reading
\* content.text of a null block throws a TypeError
MessageText(message) ==
    LET content == message.content
    IN  IF content.kind = "array"
        THEN LET RECURSIVE Concat(_)
                 Concat(blocks) ==
                     IF Len(blocks) = 0 THEN <<>>
                     ELSE blocks[1].text \o Concat(Tail(blocks))
             IN  IF \E k \in 1..Len(content.blocks) : content.blocks[k].null
                 THEN [threw |-> TRUE, text |-> <<>>]
                 ELSE [threw |-> FALSE, text |-> Concat(content.blocks)]
        ELSE IF content.kind = "string"
        THEN [threw |-> FALSE, text |-> content.str]
        ELSE IF Len(message.text) > 0
        THEN [threw |-> FALSE, text |-> message.text]
        ELSE [threw |-> FALSE, text |-> <<>>]

\* IsScanned without the test of the sender
IsScanned_AnySender(message) ==
    \/ message.content.kind \in {"array", "object"}
    \/ message.content.kind = "string" /\ Len(message.content.str) > 0

\* line 134: message.sender === 'assistant' && message.content
\* (undefined, null and the empty string are falsy; arrays and objects are not)
IsScanned(message) ==
    /\ message.sender = "assistant"
    /\ \/ message.content.kind \in {"array", "object"}
       \/ message.content.kind = "string" /\ Len(message.content.str) > 0

\* lines 156-166: one path and one archive entry per artifact
RECURSIVE StoreArtifacts(_, _, _)
StoreArtifacts(artifacts, st, conversationName) ==
    IF Len(artifacts) = 0 THEN st
    ELSE Apply(LAMBDA u :
           Apply(LAMBDA after :
                   StoreArtifacts(Tail(artifacts), after, conversationName),
                 [threw |-> FALSE,
                  artifactCount |-> st.artifactCount + 1,
                  zip |-> ZipFile(st.zip, u.fileName, artifacts[1].content),
                  usedNames |-> u.usedNames,
                  returned |-> st.returned \o <<u.fileName>>]),
           getUniqueFileName(artifacts[1].title, artifacts[1].language,
                             st.usedNames, conversationName))

\* lines 133-169: the loop over chat_messages; a null message throws at
\* message.sender, and what was written before the throw stays written
RECURSIVE ProcessMessages(_, _, _)
ProcessMessages(messages, st, conversationName) ==
    IF Len(messages) = 0 THEN st
    ELSE LET message == messages[1]
         IN  IF message.null THEN [st EXCEPT !.threw = TRUE]
             ELSE IF ~IsScanned(message)
             THEN ProcessMessages(Tail(messages), st, conversationName)
             ELSE Apply(LAMBDA mt :
                    IF mt.threw THEN [st EXCEPT !.threw = TRUE]
                    ELSE IF Len(mt.text) = 0
                    THEN ProcessMessages(Tail(messages), st, conversationName)
                    ELSE Apply(LAMBDA after :
                                 ProcessMessages(Tail(messages), after,
                                                 conversationName),
                               Apply(LAMBDA artifacts :
                                       StoreArtifacts(artifacts, st,
                                                      conversationName),
                                     extractArtifacts(mt.text))),
                    MessageText(message))

\* line 130
ConversationName(conversation) ==
    ReplaceRuns(IF Len(conversation.name) > 0 THEN conversation.name ELSE Untitled,
                FolderChars)

\* the outcome of processConversation(conversation, zip, usedNames): whether
\* it threw, the count it returns, the archive and registry it leaves, and
\* the paths it allocated
processConversation(conversation, zip, usedNames) ==
    LET st0 == [threw |-> FALSE, artifactCount |-> 0, zip |-> zip,
                usedNames |-> usedNames, returned |-> <<>>]
    IN  IF ~conversation.hasMessages THEN st0
        ELSE Apply(LAMBDA conversationName :
                     ProcessMessages(conversation.chat_messages, st0,
                                     conversationName),
                   ConversationName(conversation))

----------------------------------------------------------------------------
(* The remote service: the conversations the two endpoints can return      *)

NoContent == [kind |-> "absent", str |-> <<>>, blocks |-> <<>>]
StringContent(s) == [kind |-> "string", str |-> s, blocks |-> <<>>]
ArrayContent(bs) == [kind |-> "array", str |-> <<>>, blocks |-> bs]

TextBlock(s) == [null |-> FALSE, text |-> s]
NullBlock == [null |-> TRUE, text |-> <<>>]

Message(sender, content, text) ==
    [null |-> FALSE, sender |-> sender, content |-> content, text |-> text]

Gt == <<">">>
Quote == <<"\"">>
Space == <<" ">>

\* <antArtifact title="..." language="...">body</antArtifact>
Tagged(title, language, body) ==
    OpenLit \o Space \o TitleLit \o title \o Quote \o Space
        \o LanguageLit \o language \o Quote \o Gt \o body \o CloseLit

Python == <<"p", "y", "t", "h", "o", "n">>

Uuids == {"u1", "u2", "u3", "u4", "u5"}

Remote ==
    [u \in Uuids |->
       CASE u = "u1" ->
              [name |-> <<"A", " ", "b">>, hasMessages |-> TRUE,
               chat_messages |->
                 << Message("human", StringContent(<<"h", "i">>), <<>>),
                    Message("assistant",
                            StringContent(<<"o", "k", " ">>
                                \o Tagged(<<"a">>, Python, <<"x">>)), <<>>) >>]
         [] u = "u2" ->
              [name |-> <<"A", "_", "b">>, hasMessages |-> TRUE,
               chat_messages |->
                 << Message("assistant",
                            ArrayContent(
                              << TextBlock(Tagged(<<"a">>, Python, <<"y">>)),
                                 TextBlock(<<>>),
                                 TextBlock(Tagged(<<"a">>, Python, <<"z">>)) >>),
                            <<>>) >>]
         [] u = "u3" ->
              [name |-> <<>>, hasMessages |-> FALSE, chat_messages |-> <<>>]
         [] u = "u4" ->
              [name |-> <<"C">>, hasMessages |-> TRUE,
               chat_messages |->
                 << Message("assistant",
                            StringContent(Tagged(<<"s", "/", "m">>, <<"c">>, <<"w">>)),
                            <<>>),
                    Message("assistant", ArrayContent(<<NullBlock>>), <<>>) >>]
         [] u = "u5" ->
              [name |-> <<"D">>, hasMessages |-> TRUE,
               chat_messages |->
                 << Message("human",
                            StringContent(Tagged(<<"a">>, Python, <<"x">>)), <<>>),
                    Message("assistant", StringContent(<<"n", "o">>), <<>>),
                    Message("assistant", NoContent,
                            Tagged(<<"a">>, Python, <<"x">>)) >>] ]

\* a conversation index: at most MaxConvs summaries, no id twice
Indexes ==
    {ix \in UNION {[1..n -> Uuids] : n \in 0..MaxConvs} :
        \A a, b \in 1..Len(ix) : a # b => ix[a] # ix[b]}

Summary(u) == [uuid |-> u, name |-> Remote[u].name]

----------------------------------------------------------------------------
(* The export job: the async handler of the exportArtifacts message.       *)
(* One action is one run of the handler between two awaits.                *)

VARIABLES
    pc,                          \* where each job is suspended
    conversations,               \* the index the job fetched
    zip,                         \* the JSZip of the job: path -> content
    usedNames,                   \* the Set of paths of the job
    totalArtifacts,
    conversationsWithArtifacts,
    processedCount,
    trace,                       \* the calls the job made, in order
    responses,                   \* the arguments of its sendResponse calls
    attempts,                    \* per index entry: how its try block ended
    returned,                    \* the paths getUniqueFileName returned
    text,                        \* the message text under test
    shapeResult,                 \* per message shape: what processing gave
    extracted,                   \* what extractArtifacts gave for the text
    lastCall                     \* the last call of getUniqueFileName

vars == <<pc, conversations, zip, usedNames, totalArtifacts,
          conversationsWithArtifacts, processedCount, trace, responses,
          attempts, returned, text,
                   shapeResult, extracted, lastCall>>

EmptyZip == <<>>

\* extractArtifacts not called yet
NotExtracted == [done |-> FALSE, artifacts |-> <<>>]

\* getUniqueFileName not called yet
NoCall ==
    [called |-> FALSE, title |-> <<>>, language |-> <<>>,
     conversationFolder |-> <<>>, usedNames |-> {}, baseName |-> <<>>,
     fileName |-> <<>>]

Event(type) == [type |-> type, current |-> 0, total |-> 0, name |-> <<>>]

\* lines 208-213
ProgressEvent(current, total, conv) ==
    [type |-> "exportProgress", current |-> current, total |-> total,
     name |-> IF Len(conv.name) > 0 THEN conv.name ELSE Untitled]

\* lines 239-242, 266-269 and 283-286
Failure(message) ==
    [success |-> FALSE, error |-> message, artifactCount |-> 0,
     conversationCount |-> 0, totalConversations |-> 0]

\* lines 272-277
Success(artifactCount, conversationCount, totalConversations) ==
    [success |-> TRUE, error |-> "", artifactCount |-> artifactCount,
     conversationCount |-> conversationCount,
     totalConversations |-> totalConversations]

NoArtifactsMessage == "No artifacts found in any conversations"
DownloadFailedMessage == "Failed to download ZIP file"
IndexErrorMessage == "Failed to fetch conversations"
ArchiveErrorMessage == "Failed to generate archive"

\* AfterLoop without the return of line 243
AfterLoop_NoReturn(total, tr) ==
    IF total = 0
    THEN [pc |-> "generateAsync",
          trace |-> tr \o <<Event("check"), Event("generateAsync")>>,
          responses |-> <<Failure(NoArtifactsMessage)>>]
    ELSE [pc |-> "generateAsync",
          trace |-> tr \o <<Event("check"), Event("generateAsync")>>,
          responses |-> <<>>]

\* AfterLoop without the check of line 238
AfterLoop_NoZeroCheck(total, tr) ==
    [pc |-> "generateAsync",
     trace |-> tr \o <<Event("check"), Event("generateAsync")>>,
     responses |-> <<>>]

\* lines 238-249, reached when the loop is over: the zero-artifact check,
\* then either the failure response and return, or the call of generateAsync
AfterLoop(total, tr) ==
    IF total = 0
    THEN [pc |-> "done", trace |-> tr \o <<Event("check")>>,
          responses |-> <<Failure(NoArtifactsMessage)>>]
    ELSE [pc |-> "generateAsync",
          trace |-> tr \o <<Event("check"), Event("generateAsync")>>,
          responses |-> <<>>]

\* LoopTop with the progress message sent after the fetch is started
LoopTop_ProgressAfterFetch(convs, count, total, tr) ==
    IF count < Len(convs)
    THEN [pc |-> "fetchConversation", processedCount |-> count + 1,
          trace |-> tr \o <<Event("fetchConversation"),
                            ProgressEvent(count + 1, Len(convs), convs[count + 1])>>,
          responses |-> <<>>]
    ELSE [processedCount |-> count] @@ AfterLoop(total, tr)

\* LoopTop with the fetches of two entries started at once (a fan-out over
\* the index in the place of the awaited loop)
LoopTop_FanOut(convs, count, total, tr) ==
    IF count + 1 < Len(convs)
    THEN [pc |-> "fetchConversation", processedCount |-> count + 2,
          trace |-> tr \o <<ProgressEvent(count + 1, Len(convs), convs[count + 1]),
                            Event("fetchConversation"),
                            ProgressEvent(count + 2, Len(convs), convs[count + 2]),
                            Event("fetchConversation")>>,
          responses |-> <<>>]
    ELSE IF count < Len(convs)
    THEN [pc |-> "fetchConversation", processedCount |-> count + 1,
          trace |-> tr \o <<ProgressEvent(count + 1, Len(convs), convs[count + 1]),
                            Event("fetchConversation")>>,
          responses |-> <<>>]
    ELSE [processedCount |-> count] @@ AfterLoop(total, tr)

\* lines 203-218, the top of the loop with count entries already taken: the
\* next entry gets its progress event and its fetch, or the loop is over
LoopTop(convs, count, total, tr) ==
    IF count < Len(convs)
    THEN [pc |-> "fetchConversation", processedCount |-> count + 1,
          trace |-> tr \o <<ProgressEvent(count + 1, Len(convs), convs[count + 1]),
                            Event("fetchConversation")>>,
          responses |-> <<>>]
    ELSE [processedCount |-> count] @@ AfterLoop(total, tr)

ConversationErrorMessage == "Failed to fetch conversation"

\* CatchConversation with the error thrown on to the catch of line 281
CatchConversation_Rethrow(convs, count, total, tr) ==
    [pc |-> "done", processedCount |-> count,
     trace |-> tr \o <<Event("conversationError"), Event("exportError")>>,
     responses |-> <<Failure(ConversationErrorMessage)>>]

\* lines 232-235: the catch of the loop body; the loop goes on with the next
\* entry, without waiting
CatchConversation(convs, count, total, tr) ==
    LoopTop(convs, count, total, tr \o <<Event("conversationError")>>)

Init ==
    /\ pc = [j \in JobIds |-> "idle"]
    /\ conversations = [j \in JobIds |-> <<>>]
    /\ zip = [j \in JobIds |-> EmptyZip]
    /\ usedNames = [j \in JobIds |-> {}]
    /\ totalArtifacts = [j \in JobIds |-> 0]
    /\ conversationsWithArtifacts = [j \in JobIds |-> 0]
    /\ processedCount = [j \in JobIds |-> 0]
    /\ trace = [j \in JobIds |-> <<>>]
    /\ responses = [j \in JobIds |-> <<>>]
    /\ attempts = [j \in JobIds |-> <<>>]
    /\ returned = [j \in JobIds |-> <<>>]
    /\ text = <<>>
    /\ shapeResult = <<>>
    /\ extracted = NotExtracted
    /\ lastCall = NoCall

\* lines 186-193: an exportArtifacts message starts a job, which calls
\* fetchAllConversations and is suspended
Start(j) ==
    /\ pc[j] = "idle"
    /\ pc' = [pc EXCEPT ![j] = "fetchAllConversations"]
    /\ trace' = [trace EXCEPT ![j] = <<Event("fetchAllConversations")>>]
    /\ UNCHANGED <<conversations, zip, usedNames, totalArtifacts,
                   conversationsWithArtifacts, processedCount, responses,
                   attempts, returned, text,
                   shapeResult, extracted, lastCall>>

\* lines 193-218: the index arrives; the job state is created and the loop
\* is entered
IndexFetched(j) ==
    /\ pc[j] = "fetchAllConversations"
    /\ \E ix \in Indexes :
         LET convs == [k \in 1..Len(ix) |-> Summary(ix[k])]
             nx == LoopTop(convs, 0, 0, trace[j])
         IN  /\ conversations' = [conversations EXCEPT ![j] = convs]
             /\ zip' = [zip EXCEPT ![j] = EmptyZip]
             /\ usedNames' = [usedNames EXCEPT ![j] = {}]
             /\ totalArtifacts' = [totalArtifacts EXCEPT ![j] = 0]
             /\ conversationsWithArtifacts' =
                    [conversationsWithArtifacts EXCEPT ![j] = 0]
             /\ processedCount' = [processedCount EXCEPT ![j] = nx.processedCount]
             /\ pc' = [pc EXCEPT ![j] = nx.pc]
             /\ trace' = [trace EXCEPT ![j] = nx.trace]
             /\ responses' = [responses EXCEPT ![j] = @ \o nx.responses]
    /\ UNCHANGED <<attempts, returned, text,
                   shapeResult, extracted, lastCall>>

\* IndexFetchFailed with the failure taken for an empty index
IndexFetchFailed_AsEmptyIndex(j) ==
    /\ pc[j] = "fetchAllConversations"
    /\ LET nx == LoopTop(<<>>, 0, 0, trace[j] \o <<Event("indexFetchError")>>)
       IN  /\ pc' = [pc EXCEPT ![j] = nx.pc]
           /\ trace' = [trace EXCEPT ![j] = nx.trace]
           /\ responses' = [responses EXCEPT ![j] = @ \o nx.responses]
    /\ UNCHANGED <<conversations, zip, usedNames, totalArtifacts,
                   conversationsWithArtifacts, processedCount, attempts,
                   returned, text, shapeResult, extracted, lastCall>>

\* lines 15-17 and 281-287: fetchAllConversations throws; the outer catch
\* sends the failure
IndexFetchFailed(j) ==
    /\ pc[j] = "fetchAllConversations"
    /\ pc' = [pc EXCEPT ![j] = "done"]
    /\ trace' = [trace EXCEPT ![j] =
                    @ \o <<Event("indexFetchError"), Event("exportError")>>]
    /\ responses' = [responses EXCEPT ![j] = @ \o <<Failure(IndexErrorMessage)>>]
    /\ UNCHANGED <<conversations, zip, usedNames, totalArtifacts,
                   conversationsWithArtifacts, processedCount, attempts,
                   returned, text, shapeResult, extracted, lastCall>>

\* Counters without the test of line 223 on the conversations counter
Counters_CountEvery(total, withArtifacts, artifactCount) ==
    [totalArtifacts |-> total + artifactCount,
     conversationsWithArtifacts |-> withArtifacts + 1]

\* lines 223-227: the two counters after a conversation gave artifactCount
Counters(total, withArtifacts, artifactCount) ==
    IF artifactCount > 0
    THEN [totalArtifacts |-> total + artifactCount,
          conversationsWithArtifacts |-> withArtifacts + 1]
    ELSE [totalArtifacts |-> total, conversationsWithArtifacts |-> withArtifacts]

Attempt(conv, failed, count) ==
    [uuid |-> conv.uuid, failed |-> failed, artifactCount |-> count]

\* ConversationFetched with one archive and one registry created outside
\* the listener (those of job 1) and used by every job
ConversationFetched_SharedRegistry(j) ==
    /\ pc[j] = "fetchConversation"
    /\ \E conv \in {conversations[j][processedCount[j]]} :
       \E r \in {processConversation(Remote[conv.uuid], zip[1], usedNames[1])} :
           /\ zip' = [zip EXCEPT ![1] = r.zip]
           /\ returned' = [returned EXCEPT ![j] = @ \o r.returned]
           /\ usedNames' = [usedNames EXCEPT ![1] = r.usedNames]
           /\ IF r.threw
              THEN LET nx == CatchConversation(conversations[j], processedCount[j],
                                               totalArtifacts[j], trace[j])
                   IN  /\ pc' = [pc EXCEPT ![j] = nx.pc]
                       /\ processedCount' =
                              [processedCount EXCEPT ![j] = nx.processedCount]
                       /\ trace' = [trace EXCEPT ![j] = nx.trace]
                       /\ responses' = [responses EXCEPT ![j] = @ \o nx.responses]
                       /\ attempts' = [attempts EXCEPT ![j] =
                                          @ \o <<Attempt(conv, TRUE, 0)>>]
                       /\ UNCHANGED <<totalArtifacts, conversationsWithArtifacts>>
              ELSE /\ LET c == Counters(totalArtifacts[j],
                                        conversationsWithArtifacts[j],
                                        r.artifactCount)
                      IN  /\ totalArtifacts' =
                                 [totalArtifacts EXCEPT ![j] = c.totalArtifacts]
                          /\ conversationsWithArtifacts' =
                                 [conversationsWithArtifacts EXCEPT ![j] =
                                     c.conversationsWithArtifacts]
                   /\ pc' = [pc EXCEPT ![j] = "setTimeout"]
                   /\ trace' = [trace EXCEPT ![j] = @ \o <<Event("setTimeout")>>]
                   /\ attempts' = [attempts EXCEPT ![j] =
                                      @ \o <<Attempt(conv, FALSE, r.artifactCount)>>]
                   /\ UNCHANGED <<processedCount, responses>>
    /\ UNCHANGED <<conversations, text, shapeResult, extracted, lastCall>>

\* lines 218-235: the conversation arrives and is processed; then the
\* counters and the pacing timer, or the catch when processing threw
ConversationFetched(j) ==
    /\ pc[j] = "fetchConversation"
    /\ \E conv \in {conversations[j][processedCount[j]]} :
       \E r \in {processConversation(Remote[conv.uuid], zip[j], usedNames[j])} :
           /\ zip' = [zip EXCEPT ![j] = r.zip]
           /\ returned' = [returned EXCEPT ![j] = @ \o r.returned]
           /\ usedNames' = [usedNames EXCEPT ![j] = r.usedNames]
           /\ IF r.threw
              THEN LET nx == CatchConversation(conversations[j], processedCount[j],
                                               totalArtifacts[j], trace[j])
                   IN  /\ pc' = [pc EXCEPT ![j] = nx.pc]
                       /\ processedCount' =
                              [processedCount EXCEPT ![j] = nx.processedCount]
                       /\ trace' = [trace EXCEPT ![j] = nx.trace]
                       /\ responses' = [responses EXCEPT ![j] = @ \o nx.responses]
                       /\ attempts' = [attempts EXCEPT ![j] =
                                          @ \o <<Attempt(conv, TRUE, 0)>>]
                       /\ UNCHANGED <<totalArtifacts, conversationsWithArtifacts>>
              ELSE /\ LET c == Counters(totalArtifacts[j],
                                        conversationsWithArtifacts[j],
                                        r.artifactCount)
                      IN  /\ totalArtifacts' =
                                 [totalArtifacts EXCEPT ![j] = c.totalArtifacts]
                          /\ conversationsWithArtifacts' =
                                 [conversationsWithArtifacts EXCEPT ![j] =
                                     c.conversationsWithArtifacts]
                   /\ pc' = [pc EXCEPT ![j] = "setTimeout"]
                   /\ trace' = [trace EXCEPT ![j] = @ \o <<Event("setTimeout")>>]
                   /\ attempts' = [attempts EXCEPT ![j] =
                                      @ \o <<Attempt(conv, FALSE, r.artifactCount)>>]
                   /\ UNCHANGED <<processedCount, responses>>
    /\ UNCHANGED <<conversations, text, shapeResult, extracted, lastCall>>

\* lines 33-35 and 232-235: fetchConversation throws
ConversationFetchFailed(j) ==
    /\ pc[j] = "fetchConversation"
    /\ LET conv == conversations[j][processedCount[j]]
           nx == CatchConversation(conversations[j], processedCount[j],
                                   totalArtifacts[j], trace[j])
       IN  /\ pc' = [pc EXCEPT ![j] = nx.pc]
           /\ processedCount' = [processedCount EXCEPT ![j] = nx.processedCount]
           /\ trace' = [trace EXCEPT ![j] = nx.trace]
           /\ responses' = [responses EXCEPT ![j] = @ \o nx.responses]
           /\ attempts' = [attempts EXCEPT ![j] = @ \o <<Attempt(conv, TRUE, 0)>>]
    /\ UNCHANGED <<conversations, zip, usedNames, totalArtifacts,
                   conversationsWithArtifacts, returned, text,
                   shapeResult, extracted, lastCall>>

\* line 230 resolves: the pacing timer fired, the loop goes on
TimerFired(j) ==
    /\ pc[j] = "setTimeout"
    /\ LET nx == LoopTop(conversations[j], processedCount[j], totalArtifacts[j],
                         trace[j] \o <<Event("timeout")>>)
       IN  /\ pc' = [pc EXCEPT ![j] = nx.pc]
           /\ processedCount' = [processedCount EXCEPT ![j] = nx.processedCount]
           /\ trace' = [trace EXCEPT ![j] = nx.trace]
           /\ responses' = [responses EXCEPT ![j] = @ \o nx.responses]
    /\ UNCHANGED <<conversations, zip, usedNames, totalArtifacts,
                   conversationsWithArtifacts, attempts, returned, text,
                   shapeResult, extracted, lastCall>>

\* lines 249-252: generateAsync resolves, content.arrayBuffer() is awaited
ArchiveGenerated(j) ==
    /\ pc[j] = "generateAsync"
    /\ pc' = [pc EXCEPT ![j] = "arrayBuffer"]
    /\ trace' = [trace EXCEPT ![j] = @ \o <<Event("arrayBuffer")>>]
    /\ UNCHANGED <<conversations, zip, usedNames, totalArtifacts,
                   conversationsWithArtifacts, processedCount, responses,
                   attempts, returned, text,
                   shapeResult, extracted, lastCall>>

\* lines 252-263: the bytes arrive, chrome.downloads.download is called
ArchiveEncoded(j) ==
    /\ pc[j] = "arrayBuffer"
    /\ pc' = [pc EXCEPT ![j] = "download"]
    /\ trace' = [trace EXCEPT ![j] = @ \o <<Event("download")>>]
    /\ UNCHANGED <<conversations, zip, usedNames, totalArtifacts,
                   conversationsWithArtifacts, processedCount, responses,
                   attempts, returned, text,
                   shapeResult, extracted, lastCall>>

\* lines 249-252 and 281-287: archive finalization throws
ArchiveFailed(j) ==
    /\ pc[j] \in {"generateAsync", "arrayBuffer"}
    /\ pc' = [pc EXCEPT ![j] = "done"]
    /\ trace' = [trace EXCEPT ![j] =
                    @ \o <<Event("archiveError"), Event("exportError")>>]
    /\ responses' = [responses EXCEPT ![j] = @ \o <<Failure(ArchiveErrorMessage)>>]
    /\ UNCHANGED <<conversations, zip, usedNames, totalArtifacts,
                   conversationsWithArtifacts, processedCount, attempts,
                   returned, text, shapeResult, extracted, lastCall>>

\* lines 263-279: the callback of chrome.downloads.download
DownloadCallback(j) ==
    /\ pc[j] = "download"
    /\ \E lastError \in BOOLEAN :
         /\ responses' = [responses EXCEPT ![j] = @ \o
               << IF lastError THEN Failure(DownloadFailedMessage)
                  ELSE Success(totalArtifacts[j], conversationsWithArtifacts[j],
                               Len(conversations[j])) >>]
         /\ trace' = [trace EXCEPT ![j] = @ \o
               << IF lastError THEN Event("downloadError")
                  ELSE Event("exportCompleted") >>]
    /\ pc' = [pc EXCEPT ![j] = "done"]
    /\ UNCHANGED <<conversations, zip, usedNames, totalArtifacts,
                   conversationsWithArtifacts, processedCount, attempts,
                   returned, text, shapeResult, extracted, lastCall>>

\* one export job per run of the service worker
SingleJob == {1}

JobStep(j) ==
    \/ IndexFetchFailed(j)
    \/ IndexFetched(j)
    \/ ConversationFetchFailed(j)
    \/ ConversationFetched(j)
    \/ TimerFired(j)
    \/ ArchiveGenerated(j)
    \/ ArchiveEncoded(j)
    \/ ArchiveFailed(j)
    \/ DownloadCallback(j)

Next == \E j \in SingleJob : Start(j) \/ JobStep(j)

Spec == Init /\ [][Next]_vars

\* every awaited call, timer and callback of a started job completes
LiveSpec == Spec /\ \A j \in SingleJob : WF_vars(JobStep(j))

----------------------------------------------------------------------------
(* Two exportArtifacts messages: the listener starts one job for each, and *)
(* the steps of the two jobs interleave at their awaits                    *)

MaxTwoConvs == 2

\* the conversations the remote service lists for the two jobs
TwoUuids == {"u2", "u4"}

\* a step of either job, with an index of at most MaxTwoConvs conversations
TwoNext ==
    \E j \in JobIds :
        /\ Start(j) \/ JobStep(j)
        /\ Len(conversations'[j]) <= MaxTwoConvs
        /\ \A k \in 1..Len(conversations'[j]) :
               conversations'[j][k].uuid \in TwoUuids

TwoJobSpec == Init /\ [][TwoNext]_vars

----------------------------------------------------------------------------
(* getUniqueFileName called again and again on one registry                *)

AllocTitles ==
    { <<"a">>, <<"a", "_", "1">>, <<"a", " ", "b">>, <<"a", "_", "b">>,
      <<"s", "/", "m">>, <<"/", "a">> }

AllocLanguages == { Python, <<"P", "y", "t", "h", "o", "n">>, <<"z", "z">> }

AllocFolders == { <<"A">>, <<"B">> }

\* one call of getUniqueFileName on the registry usedNames[1], the max-th
\* call at most; lastCall keeps its arguments, the registry it found, the
\* baseName of line 109 and the path it returned
AllocateOf(titles, languages, folders, max) ==
    /\ Len(returned[1]) < max
    /\ \E title \in titles, language \in languages,
          conversationFolder \in folders :
         \E u \in {getUniqueFileName(title, language, usedNames[1],
                                     conversationFolder)} :
             /\ usedNames' = [usedNames EXCEPT ![1] = u.usedNames]
             /\ returned' = [returned EXCEPT ![1] = @ \o <<u.fileName>>]
             /\ lastCall' =
                    [called |-> TRUE, title |-> title, language |-> language,
                     conversationFolder |-> conversationFolder,
                     usedNames |-> usedNames[1],
                     baseName |-> BaseName(title, conversationFolder),
                     fileName |-> u.fileName]
    /\ UNCHANGED <<pc, conversations, zip, totalArtifacts,
                   conversationsWithArtifacts, processedCount, trace,
                   responses, attempts, text, shapeResult, extracted>>

Allocate == AllocateOf(AllocTitles, AllocLanguages, AllocFolders, MaxAllocs)

AllocSpec == Init /\ [][Allocate]_vars

----------------------------------------------------------------------------
(* getUniqueFileName on titles with runs of other characters, with empty   *)
(* and ".." segments, and with a segment that reads like a file name       *)

MaxPaths == 3

PathTitles ==
    { <<"a">>, <<"a", " ", "b">>, <<"a", " ", " ", "b">>, <<"/", "a">>,
      <<".", ".", "/", "a">>, <<"a", "/", "/", "a">>,
      <<"a", ".", "p", "y", "/", "a">> }

PathLanguages == { Python }

PathFolders == { <<"A">> }

PathAllocate == AllocateOf(PathTitles, PathLanguages, PathFolders, MaxPaths)

PathSpec == Init /\ [][PathAllocate]_vars

----------------------------------------------------------------------------
(* processConversation on one assistant message in each of its shapes      *)

TextPieces ==
    { OpenLit \o Gt,
      OpenLit \o Space \o TitleLit \o <<"a">> \o Quote \o Gt,
      <<"x">>,
      Space,
      CloseLit }

RECURSIVE TextsOf(_)
TextsOf(n) ==
    IF n = 0 THEN {<<>>}
    ELSE LET shorter == TextsOf(n - 1)
         IN  shorter \cup {t \o p : t \in shorter, p \in TextPieces}

ShapeTexts == TextsOf(MaxPieces)

Shapes == {"string", "blocks", "legacy"}

NotProcessed ==
    [done |-> FALSE, artifactCount |-> 0, zip |-> EmptyZip, returned |-> <<>>]

\* a conversation of one assistant message, processed with a new archive
\* and a new registry
ProcessOne(message) ==
    Apply(LAMBDA r :
            [done |-> TRUE, artifactCount |-> r.artifactCount, zip |-> r.zip,
             returned |-> r.returned],
          processConversation(
              [name |-> <<"S">>, hasMessages |-> TRUE,
               chat_messages |-> <<message>>], EmptyZip, {}))

ShapeInit ==
    /\ pc = [j \in JobIds |-> "idle"]
    /\ conversations = [j \in JobIds |-> <<>>]
    /\ zip = [j \in JobIds |-> EmptyZip]
    /\ usedNames = [j \in JobIds |-> {}]
    /\ totalArtifacts = [j \in JobIds |-> 0]
    /\ conversationsWithArtifacts = [j \in JobIds |-> 0]
    /\ processedCount = [j \in JobIds |-> 0]
    /\ trace = [j \in JobIds |-> <<>>]
    /\ responses = [j \in JobIds |-> <<>>]
    /\ attempts = [j \in JobIds |-> <<>>]
    /\ returned = [j \in JobIds |-> <<>>]
    /\ text \in ShapeTexts
    /\ shapeResult = [s \in Shapes |-> NotProcessed]
    /\ extracted = NotExtracted
    /\ lastCall = NoCall

ShapeFrame ==
    UNCHANGED <<pc, conversations, zip, usedNames, totalArtifacts,
                conversationsWithArtifacts, processedCount, trace, responses,
                attempts, returned, text, extracted, lastCall>>

\* message.content is the text (lines 145-147)
ProcessString ==
    /\ ~shapeResult["string"].done
    /\ shapeResult' = [shapeResult EXCEPT !["string"] =
           ProcessOne(Message("assistant", StringContent(text), <<>>))]
    /\ ShapeFrame

\* message.content is a list of two blocks that carry the text in two
\* fragments (lines 138-144)
ProcessBlocks ==
    /\ ~shapeResult["blocks"].done
    /\ \E k \in 0..Len(text) :
         shapeResult' = [shapeResult EXCEPT !["blocks"] =
             ProcessOne(Message("assistant",
                 ArrayContent(<< TextBlock(Slice(text, 1, k)),
                                 TextBlock(Slice(text, k + 1, Len(text))) >>),
                 <<>>))]
    /\ ShapeFrame

\* message.text is the text and the message has no content field
\* (lines 148-150)
ProcessLegacy ==
    /\ ~shapeResult["legacy"].done
    /\ shapeResult' = [shapeResult EXCEPT !["legacy"] =
           ProcessOne(Message("assistant", NoContent, text))]
    /\ ShapeFrame

ShapeNext == ProcessString \/ ProcessBlocks \/ ProcessLegacy

ShapeSpec == ShapeInit /\ [][ShapeNext]_vars

----------------------------------------------------------------------------
(* extractArtifacts on one message text                                    *)

MaxTags == 4

\* fragments of a message text: opening tags without and with attributes,
\* text that reads like an attribute, a character, the closing tag, and an
\* opening tag that is not closed by ">"
ExtractPieces ==
    { OpenLit \o Gt,
      OpenLit \o Space \o TitleLit \o <<"a">> \o Quote \o Gt,
      OpenLit \o Space \o LanguageLit \o <<"c">> \o Quote \o Gt,
      Space \o TitleLit \o <<"b">> \o Quote,
      Space \o LanguageLit \o <<"r">> \o Quote,
      <<"x">>,
      CloseLit,
      OpenLit }

RECURSIVE ExtractTextsOf(_)
ExtractTextsOf(n) ==
    IF n = 0 THEN {<<>>}
    ELSE LET shorter == ExtractTextsOf(n - 1)
         IN  shorter \cup {t \o p : t \in shorter, p \in ExtractPieces}

ExtractTexts == ExtractTextsOf(MaxTags)

ExtractInit ==
    /\ pc = [j \in JobIds |-> "idle"]
    /\ conversations = [j \in JobIds |-> <<>>]
    /\ zip = [j \in JobIds |-> EmptyZip]
    /\ usedNames = [j \in JobIds |-> {}]
    /\ totalArtifacts = [j \in JobIds |-> 0]
    /\ conversationsWithArtifacts = [j \in JobIds |-> 0]
    /\ processedCount = [j \in JobIds |-> 0]
    /\ trace = [j \in JobIds |-> <<>>]
    /\ responses = [j \in JobIds |-> <<>>]
    /\ attempts = [j \in JobIds |-> <<>>]
    /\ returned = [j \in JobIds |-> <<>>]
    /\ text \in ExtractTexts
    /\ shapeResult = <<>>
    /\ extracted = NotExtracted
    /\ lastCall = NoCall

\* line 154: extractArtifacts(messageText)
Extract ==
    /\ ~extracted.done
    /\ \E artifacts \in {extractArtifacts(text)} :
         extracted' = [done |-> TRUE, artifacts |-> artifacts]
    /\ UNCHANGED <<pc, conversations, zip, usedNames, totalArtifacts,
                   conversationsWithArtifacts, processedCount, trace,
                   responses, attempts, returned, text, shapeResult,
                   lastCall>>

ExtractSpec == ExtractInit /\ [][Extract]_vars

----------------------------------------------------------------------------
(* Properties of the export job                                            *)

Positions(j, type) == {k \in 1..Len(trace[j]) : trace[j][k].type = type}

Happened(j, type) == Positions(j, type) # {}

\* the k-th smallest member of a set of positions
RECURSIVE Nth(_, _)
Nth(S, k) ==
    LET m == CHOOSE x \in S : \A y \in S : x <= y
    IN  IF k = 1 THEN m ELSE Nth(S \ {m}, k - 1)

SomeFailed(j) == \E k \in 1..Len(attempts[j]) : attempts[j][k].failed

Succeeded(j) == {k \in 1..Len(attempts[j]) : ~attempts[j][k].failed}

RECURSIVE SumCounts(_, _)
SumCounts(j, S) ==
    IF S = {} THEN 0
    ELSE LET k == CHOOSE x \in S : TRUE
         IN  attempts[j][k].artifactCount + SumCounts(j, S \ {k})

Yielding(j) == {k \in Succeeded(j) : attempts[j][k].artifactCount > 0}

PastLoop(j) == pc[j] \in {"generateAsync", "arrayBuffer", "download", "done"}

\* C1: every started job sends exactly one ExportResult: never two, and,
\* when every awaited call, timer and callback completes, eventually one.
C1_ExactlyOneResult ==
    /\ [](\A j \in JobIds : Len(responses[j]) <= 1)
    /\ [](\A j \in JobIds : pc[j] = "done" => Len(responses[j]) = 1)
    /\ \A j \in JobIds : (pc[j] # "idle") ~> (pc[j] = "done")

C1_Witness ==
    /\ pc[1] = "done"
    /\ Len(responses[1]) = 1
    /\ SomeFailed(1)
    /\ Happened(1, "downloadError")

\* C2: an error of fetchConversation or processConversation for one entry
\* never aborts the job: the entries are attempted once each, in index
\* order, and the job leaves the loop only through the terminal check with
\* every entry attempted.
C2_ErrorsDoNotAbort ==
    \A j \in JobIds :
        SomeFailed(j) =>
            /\ Len(attempts[j]) <= Len(conversations[j])
            /\ \A k \in 1..Len(attempts[j]) :
                   attempts[j][k].uuid = conversations[j][k].uuid
            /\ Cardinality(Positions(j, "fetchConversation")) = processedCount[j]
            /\ processedCount[j] - Len(attempts[j]) =
                   (IF pc[j] = "fetchConversation" THEN 1 ELSE 0)
            /\ PastLoop(j) =>
                   /\ Len(attempts[j]) = Len(conversations[j])
                   /\ Cardinality(Positions(j, "check")) = 1

C2_Witness ==
    /\ pc[1] = "done"
    /\ Len(conversations[1]) = 3
    /\ Len(attempts[1]) = 3
    /\ attempts[1][1].failed
    /\ attempts[1][2].failed
    /\ Happened(1, "check")

\* C3: between any two consecutive fetchConversation calls of one job
\* there is a completed pacing delay.
C3_PacingBetweenFetches ==
    \A j \in JobIds :
        \A a, b \in Positions(j, "fetchConversation") :
            a < b => \E m \in (a + 1)..(b - 1) : trace[j][m].type = "timeout"

\* C4 as stated: when some conversations failed and an artifact was found,
\* the job ends with succeeded:true and the counts of the conversations
\* that did not fail.
C4_Original ==
    \A j \in JobIds :
        (pc[j] = "done" /\ SomeFailed(j) /\ SumCounts(j, Succeeded(j)) > 0) =>
            responses[j] = << Success(SumCounts(j, Succeeded(j)),
                                      Cardinality(Yielding(j)),
                                      Len(conversations[j])) >>

\* C4 (amended): when some conversations failed, the others gave at least
\* one artifact, and archive finalization and the download did not fail, the
\* job ends with succeeded:true, totalConversations the index length,
\* artifactCount the sum of the counts of the conversations that did not
\* fail, and conversationCount the number of those that gave an artifact.
C4_PartialFailureCounts ==
    \A j \in JobIds :
        ( /\ pc[j] = "done"
          /\ SomeFailed(j)
          /\ SumCounts(j, Succeeded(j)) > 0
          /\ ~Happened(j, "archiveError")
          /\ ~Happened(j, "downloadError") ) =>
            responses[j] = << Success(SumCounts(j, Succeeded(j)),
                                      Cardinality(Yielding(j)),
                                      Len(conversations[j])) >>

C4_Witness ==
    /\ pc[1] = "done"
    /\ Len(attempts[1]) = 3
    /\ ~attempts[1][1].failed /\ attempts[1][1].artifactCount > 0
    /\ attempts[1][2].failed
    /\ ~attempts[1][3].failed /\ attempts[1][3].artifactCount = 0
    /\ Len(responses[1]) = 1
    /\ responses[1][1].success

\* C5: when the terminal check finds totalArtifacts = 0 the job ends with
\* succeeded:false and a non-empty message, and neither archive finalization
\* nor the download is invoked; succeeded:true needs artifactCount > 0.
C5_ZeroArtifacts ==
    \A j \in JobIds :
        /\ (Happened(j, "check") /\ totalArtifacts[j] = 0) =>
              /\ pc[j] = "done"
              /\ Len(responses[j]) = 1
              /\ ~responses[j][1].success
              /\ responses[j][1].error # ""
              /\ ~Happened(j, "generateAsync")
              /\ ~Happened(j, "arrayBuffer")
              /\ ~Happened(j, "download")
        /\ \A k \in 1..Len(responses[j]) :
              responses[j][k].success =>
                  totalArtifacts[j] > 0 /\ responses[j][k].artifactCount > 0

C5_Witness ==
    /\ Happened(1, "check")
    /\ totalArtifacts[1] = 0
    /\ Len(conversations[1]) = 2
    /\ ~SomeFailed(1)
    /\ Len(responses[1]) = 1

\* C6: when the index fetch fails the job ends with succeeded:false and the
\* error message, with no progress event, no fetchConversation call and no
\* archive or download operation.
C6_IndexFetchFailure ==
    \A j \in JobIds :
        Happened(j, "indexFetchError") =>
            /\ pc[j] = "done"
            /\ responses[j] = <<Failure(IndexErrorMessage)>>
            /\ \A k \in 1..Len(trace[j]) :
                   trace[j][k].type \in
                       {"fetchAllConversations", "indexFetchError", "exportError"}
            /\ zip[j] = EmptyZip
            /\ usedNames[j] = {}

C6_Witness ==
    /\ Happened(1, "indexFetchError")
    /\ pc[1] = "done"
    /\ Len(responses[1]) = 1

\* C7: entry i of the index gets exactly one progress event
\* {current: i, total: index length, conversationName}, emitted before its
\* fetch is attempted, also when that fetch fails; the events come in index
\* order.
C7_ProgressBeforeFetch ==
    \A j \in JobIds :
        LET prog == Positions(j, "exportProgress")
            fetch == Positions(j, "fetchConversation")
        IN  /\ Cardinality(prog) = processedCount[j]
            /\ Cardinality(fetch) = processedCount[j]
            /\ \A i \in 1..processedCount[j] :
                   /\ trace[j][Nth(prog, i)] =
                          ProgressEvent(i, Len(conversations[j]), conversations[j][i])
                   /\ Nth(prog, i) < Nth(fetch, i)
                   /\ i > 1 => Nth(fetch, i - 1) < Nth(prog, i)
            /\ (PastLoop(j) /\ ~Happened(j, "indexFetchError")) =>
                   processedCount[j] = Len(conversations[j])

C7_Witness ==
    /\ pc[1] = "done"
    /\ Len(attempts[1]) = 3
    /\ attempts[1][2].failed
    /\ Cardinality(Positions(1, "exportProgress")) = 3

\* C9: a conversation whose fetch or processing raised an error leaves the
\* archive, the registry and the two counters as they were before it.
C9_FailedContributesNothing ==
    [][\A j \in JobIds :
          ( /\ Len(attempts'[j]) = Len(attempts[j]) + 1
            /\ attempts'[j][Len(attempts'[j])].failed ) =>
              /\ zip'[j] = zip[j]
              /\ usedNames'[j] = usedNames[j]
              /\ totalArtifacts'[j] = totalArtifacts[j]
              /\ conversationsWithArtifacts'[j] = conversationsWithArtifacts[j]]_vars

\* the conversation without the messages of other senders than assistant
AssistantOnly(conversation) ==
    [conversation EXCEPT
        !.chat_messages = SelectSeq(@, LAMBDA m : m.sender = "assistant")]

\* C16: processConversation returns 0 and leaves the archive and the
\* registry as they are for a conversation with no message list; for one
\* with messages it writes, allocates and counts what it would for the
\* assistant messages alone, one entry and one path for each artifact counted.
C16_OnlyAssistantMessages ==
    [][\A j \in JobIds :
          ( /\ Len(attempts'[j]) = Len(attempts[j]) + 1
            /\ ~attempts'[j][Len(attempts'[j])].failed ) =>
              \E a \in {attempts'[j][Len(attempts'[j])]} :
              \E conv \in {Remote[a.uuid]} :
                  IF ~conv.hasMessages
                  THEN /\ a.artifactCount = 0
                       /\ zip'[j] = zip[j]
                       /\ usedNames'[j] = usedNames[j]
                  ELSE \E r \in {processConversation(AssistantOnly(conv),
                                                     zip[j], usedNames[j])} :
                         /\ a.artifactCount = r.artifactCount
                         /\ zip'[j] = r.zip
                         /\ usedNames'[j] = r.usedNames
                         /\ Cardinality(usedNames'[j]) =
                                Cardinality(usedNames[j]) + a.artifactCount
                         /\ DOMAIN zip'[j] = usedNames'[j]]_vars

\* a conversation with no message list, then one whose user message holds
\* an artifact tag, then one with an artifact of the assistant
C16_Witness ==
    /\ Len(attempts[1]) = 3
    /\ attempts[1][1].uuid = "u3" /\ ~attempts[1][1].failed
    /\ attempts[1][2].uuid = "u5" /\ ~attempts[1][2].failed
    /\ attempts[1][3].uuid = "u1" /\ ~attempts[1][3].failed
    /\ attempts[1][3].artifactCount = 1
    /\ Cardinality(DOMAIN zip[1]) = 1

\* the calls and completions of one job that the trace records
Completions(j) ==
    Positions(j, "setTimeout") \cup Positions(j, "conversationError")

\* C17: one job never has two remote fetches outstanding: the fetch of an
\* entry starts after the fetch and processing of the entry before it have
\* completed or failed, and archive finalization starts after the last entry
\* is done.
C17_NoFanOut ==
    \A j \in JobIds :
        LET fetch == Positions(j, "fetchConversation")
        IN  /\ Cardinality(fetch) - Cardinality(Completions(j)) \in {0, 1}
            /\ Cardinality(Completions(j)) = Len(attempts[j])
            /\ pc[j] = "fetchAllConversations" => fetch = {}
            /\ \A a, b \in fetch :
                   a < b => \E m \in (a + 1)..(b - 1) : m \in Completions(j)
            /\ \A i \in 1..Cardinality(fetch) :
                   /\ Nth(fetch, i) > 1
                   /\ trace[j][Nth(fetch, i) - 1] =
                          ProgressEvent(i, Len(conversations[j]),
                                        conversations[j][i])
            /\ \A g \in Positions(j, "generateAsync") :
                   /\ \A a \in fetch : a < g
                   /\ Cardinality({m \in Completions(j) : m < g}) =
                          Len(conversations[j])
                   /\ Cardinality(fetch) = Len(conversations[j])

C17_Witness ==
    /\ pc[1] = "generateAsync"
    /\ Len(conversations[1]) = 3
    /\ attempts[1][2].failed
    /\ Cardinality(Positions(1, "fetchConversation")) = 3

----------------------------------------------------------------------------
(* Properties of getUniqueFileName and of processConversation              *)

\* C8: the paths getUniqueFileName returns for one registry are pairwise
\* distinct, and a path in the registry is never removed or changed.
C8_UniquePaths ==
    /\ [](\A a, b \in 1..Len(returned[1]) :
              a # b => returned[1][a] # returned[1][b])
    /\ [](Range(returned[1]) = usedNames[1])
    /\ [][usedNames[1] \subseteq usedNames'[1]]_vars

C8_Witness ==
    /\ Len(returned[1]) = 3
    /\ returned[1][1] = <<"A", "/", "a", ".", "p", "y">>
    /\ returned[1][2] = <<"A", "/", "a", "_", "1", ".", "p", "y">>
    /\ returned[1][3] = <<"A", "/", "a", "_", "1", "_", "1", ".", "p", "y">>

\* C10: the three shapes of an assistant message that carry the same text
\* give the same artifacts in processConversation.
C10_ShapesAgree ==
    \A s1, s2 \in Shapes :
        (shapeResult[s1].done /\ shapeResult[s2].done) =>
            shapeResult[s1] = shapeResult[s2]

----------------------------------------------------------------------------
(* Properties of extractArtifacts                                          *)

\* an opening tag begins at position p of t, and a closing tag follows its ">"
Closable(t, p) ==
    /\ MatchAt(t, OpenLit, p)
    /\ Apply(LAMBDA g : g # 0 /\ IndexOfFrom(t, CloseLit, g + 1) # 0,
             IndexOfFrom(t, Gt, p + Len(OpenLit)))

\* the tags of t from position from on, read left to right: the first
\* opening tag that a closing tag follows, its ">", the first closing tag
\* after that, and on from the end of that closing tag
RECURSIVE SpansFrom(_, _)
SpansFrom(t, from) ==
    Apply(LAMBDA starts :
            IF starts = {} THEN <<>>
            ELSE Apply(LAMBDA o :
                   Apply(LAMBDA g :
                     Apply(LAMBDA c :
                             <<[open |-> o, gt |-> g, close |-> c]>>
                                 \o SpansFrom(t, c + Len(CloseLit)),
                           IndexOfFrom(t, CloseLit, g + 1)),
                     IndexOfFrom(t, Gt, o + Len(OpenLit))),
                   CHOOSE o \in starts : \A q \in starts : o <= q),
          {p \in from..Len(t) : Closable(t, p)})

Contains(s, lit) == IndexOfFrom(s, lit, 1) # 0

\* C11: an artifact whose opening tag carries no title attribute gets the
\* title "Untitled", and one whose opening tag carries no language attribute
\* gets the language "txt", whatever its body is.
C11_AttributesFromOpeningTag ==
    extracted.done =>
        Apply(LAMBDA sp :
                /\ Len(extracted.artifacts) = Len(sp)
                /\ \A k \in 1..Len(sp) :
                     Apply(LAMBDA openingTag :
                             /\ ~Contains(openingTag, TitleLit) =>
                                    extracted.artifacts[k].title = Untitled
                             /\ ~Contains(openingTag, LanguageLit) =>
                                    extracted.artifacts[k].language = DefaultLanguage,
                           Slice(text, sp[k].open, sp[k].gt)),
              SpansFrom(text, 1))

\* C15: extractArtifacts matches first-close-wins and without recursion: the
\* body of an artifact runs from the ">" of an opening tag to the first
\* closing tag after it, the next artifact begins after that closing tag, an
\* opening tag that is not the start of an artifact lies inside the tags of
\* one or has no closing tag after it, and the artifacts come in the order
\* of their opening tags.
C15_FirstCloseWins ==
    extracted.done =>
        Apply(LAMBDA sp :
                /\ Len(extracted.artifacts) = Len(sp)
                /\ \A k \in 1..Len(sp) :
                     /\ MatchAt(text, OpenLit, sp[k].open)
                     /\ sp[k].gt >= sp[k].open + Len(OpenLit)
                     /\ text[sp[k].gt] = ">"
                     /\ \A q \in (sp[k].open + Len(OpenLit))..(sp[k].gt - 1) :
                            text[q] # ">"
                     /\ MatchAt(text, CloseLit, sp[k].close)
                     /\ sp[k].close > sp[k].gt
                     /\ \A q \in (sp[k].gt + 1)..(sp[k].close - 1) :
                            ~MatchAt(text, CloseLit, q)
                     /\ extracted.artifacts[k].content =
                            Trim(Slice(text, sp[k].gt + 1, sp[k].close - 1))
                     /\ k < Len(sp) =>
                            sp[k + 1].open >= sp[k].close + Len(CloseLit)
                /\ \A p \in 1..Len(text) :
                     MatchAt(text, OpenLit, p) =>
                         \/ \E k \in 1..Len(sp) : sp[k].open = p
                         \/ \E k \in 1..Len(sp) :
                              sp[k].open < p /\ p < sp[k].close + Len(CloseLit)
                         \/ ~Closable(text, p),
              SpansFrom(text, 1))

\* an opening tag inside the body of an artifact, and an artifact after it
C15_Witness ==
    /\ extracted.done
    /\ text = OpenLit \o Gt \o OpenLit \o Gt \o CloseLit \o OpenLit \o Gt
    /\ Len(extracted.artifacts) = 1
    /\ extracted.artifacts[1].content = OpenLit \o Gt

----------------------------------------------------------------------------
(* Properties of two jobs                                                  *)

\* the job is between its start signal and its result
Running(j) == pc[j] \notin {"idle", "done"}

\* C12: at most one export job is Running at any time, whatever start
\* signals arrive.
C12_AtMostOneRunning == Cardinality({j \in JobIds : Running(j)}) <= 1

\* the archive, the registry and the allocated paths of job j
Own(z, u, r, j) == [zip |-> z[j], usedNames |-> u[j], returned |-> r[j]]

\* what the attempt a of a job that holds own, and that no other job
\* touches, can leave: a failed attempt is a fetch that failed or a
\* processConversation that threw
SoloStep(own, a) ==
    Apply(LAMBDA r :
            (IF a.failed THEN {own} ELSE {})
                \cup (IF r.threw = a.failed
                      THEN {[zip |-> r.zip, usedNames |-> r.usedNames,
                             returned |-> own.returned \o r.returned]}
                      ELSE {}),
          processConversation(Remote[a.uuid], own.zip, own.usedNames))

\* C18: each job has its own archive and registry, empty when the job
\* starts: a step of one job leaves the archive, the registry and the
\* allocated paths of the other job as they are, and what an attempt of a job
\* writes and allocates is what it would had the job run alone.
C18_JobsAreIsolated ==
    /\ [](\A j \in JobIds :
            pc[j] \in {"idle", "fetchAllConversations"} =>
                zip[j] = EmptyZip /\ usedNames[j] = {})
    /\ [][\A j \in JobIds :
            IF Len(attempts'[j]) = Len(attempts[j]) + 1
            THEN Own(zip', usedNames', returned', j) \in
                     SoloStep(Own(zip, usedNames, returned, j),
                              attempts'[j][Len(attempts'[j])])
            ELSE Own(zip', usedNames', returned', j) =
                     Own(zip, usedNames, returned, j)]_vars

\* the two jobs, both suspended in the loop, have allocated the same paths
\* for the same conversation, each in its own registry
C18_Witness ==
    /\ pc[1] = "setTimeout"
    /\ pc[2] = "setTimeout"
    /\ Len(returned[1]) = 2
    /\ returned[2] = returned[1]
    /\ usedNames[2] = usedNames[1]
    /\ returned[1][2] = <<"A", "_", "b", "/", "a", "_", "1", ".", "p", "y">>

----------------------------------------------------------------------------
(* Properties of the paths of getUniqueFileName                            *)

\* the sanitized title of the last call: baseName without the folder and
\* its "/" (lines 96-107 split the sanitized title at "/" and join it again)
Sanitized == Slice(lastCall.baseName, Len(lastCall.conversationFolder) + 2,
                   Len(lastCall.baseName))

\* C13 as stated: the sanitized title has the length of the title and
\* differs from it exactly at the characters outside [A-Za-z0-9_.-/], where
\* it has "_".
C13_Original ==
    lastCall.called =>
        /\ Len(Sanitized) = Len(lastCall.title)
        /\ \A i \in 1..Len(lastCall.title) :
               Sanitized[i] = IF lastCall.title[i] \in TitleChars
                              THEN lastCall.title[i] ELSE "_"

\* the positions of a title that sanitization keeps: the characters of the
\* class, and the first character of every run of other characters
KeptPositions(title) ==
    {i \in 1..Len(title) :
        \/ title[i] \in TitleChars
        \/ i = 1
        \/ title[i - 1] \in TitleChars}

\* C13 (amended): sanitization replaces every maximal run of characters
\* outside [A-Za-z0-9_.-/] with one "_" and keeps every other character, in
\* order; the sanitized title is as long as the title exactly when no two
\* characters outside the class are adjacent, and shorter otherwise.
C13_RunsBecomeOneUnderscore ==
    lastCall.called =>
        \E title \in {lastCall.title} :
        \E kept \in {KeptPositions(title)} :
        \E sanitized \in {Sanitized} :
            /\ lastCall.baseName =
                   lastCall.conversationFolder \o <<"/">> \o sanitized
            /\ Len(sanitized) = Cardinality(kept)
            /\ \A k \in 1..Cardinality(kept) :
                   sanitized[k] = IF title[Nth(kept, k)] \in TitleChars
                                  THEN title[Nth(kept, k)] ELSE "_"
            /\ Len(sanitized) <= Len(title)
            /\ Len(sanitized) = Len(title) <=>
                   ~\E i \in 1..(Len(title) - 1) :
                        title[i] \notin TitleChars /\ title[i + 1] \notin TitleChars

\* a title with two adjacent characters outside the class
C13_Witness ==
    /\ lastCall.called
    /\ lastCall.title = <<"a", " ", " ", "b">>
    /\ lastCall.baseName = <<"A", "/", "a", "_", "b">>
    /\ lastCall.fileName = <<"A", "/", "a", "_", "b", "_", "1", ".", "p", "y">>

\* the k-th candidate of the last call: base+extension for k = 0, then
\* base_k+extension
Candidate(k) ==
    IF k = 0 THEN lastCall.baseName \o getFileExtension(lastCall.language)
    ELSE lastCall.baseName \o <<"_">> \o NumToStr(k)
             \o getFileExtension(lastCall.language)

\* C14: getUniqueFileName returns base+extension when the registry does not
\* hold it, and otherwise base_k+extension for the smallest k >= 1 that the
\* registry does not hold, whatever title its paths were allocated for; the
\* call adds the returned path, and nothing else, to the registry.
C14_SmallestFreeSuffix ==
    lastCall.called =>
        /\ \E k \in 0..Cardinality(lastCall.usedNames) :
               /\ lastCall.fileName = Candidate(k)
               /\ \A m \in 0..(k - 1) : Candidate(m) \in lastCall.usedNames
        /\ lastCall.fileName \notin lastCall.usedNames
        /\ usedNames[1] = lastCall.usedNames \cup {lastCall.fileName}
        /\ returned[1][Len(returned[1])] = lastCall.fileName

\* base_1+extension was allocated for the title "a_1" before: the second
\* path of the title "a" gets the suffix 2
C14_Witness ==
    /\ returned[1] = << <<"A", "/", "a", "_", "1", ".", "p", "y">>,
                        <<"A", "/", "a", ".", "p", "y">>,
                        <<"A", "/", "a", "_", "2", ".", "p", "y">> >>
    /\ lastCall.title = <<"a">>
    /\ lastCall.usedNames = { <<"A", "/", "a", "_", "1", ".", "p", "y">>,
                              <<"A", "/", "a", ".", "p", "y">> }

\* C19: the path of an artifact begins with the sanitized name of its
\* conversation and "/", and no segment after that is empty or "..".
C19_PathsStayInFolder ==
    lastCall.called =>
        /\ Slice(lastCall.fileName, 1, Len(lastCall.conversationFolder) + 1) =
               lastCall.conversationFolder \o <<"/">>
        /\ \E segments \in
                 {SplitSlash(Slice(lastCall.fileName,
                                   Len(lastCall.conversationFolder) + 2,
                                   Len(lastCall.fileName)))} :
               \A k \in 1..Len(segments) :
                   segments[k] # <<>> /\ segments[k] # <<".", ".">>

\* C20: no allocated path is a directory of another allocated path.
C20_NoFileIsDirectory ==
    \A P, Q \in usedNames[1] :
        ~( /\ Len(Q) > Len(P)
           /\ Slice(Q, 1, Len(P) + 1) = P \o <<"/">> )

====
